---- MODULE Spec2Model ----
(***************************************************************************)
(* A model of transcribe.py: the voice-memo transcription batch.           *)
(*                                                                         *)
(* Text is modelled as a sequence of characters (one-character strings);   *)
(* fixed literals of the program (directory paths, model names, message    *)
(* fragments) are single tokens of such a sequence.                        *)
(***************************************************************************)
EXTENDS Integers, Sequences, FiniteSets, TLC

(***************************************************************************)
(* Bounds of the model.                                                    *)
(***************************************************************************)
\* Longest text handed to append_with_spacing in the append specifications.
MaxTextLen == 3
\* Longest prior content of a note file in SpecAppend.
MaxInitLen == 3
\* Number of consecutive appends in SpecAppendSeq.
MaxAppends == 2
\* Number of runs of the program, one after the other, in SpecRerun.
MaxRuns == 2

(***************************************************************************)
(* Text primitives (Python str methods and text-mode file I/O).            *)
(***************************************************************************)
\* The characters str.strip() removes, among the characters of the model.
Whitespace == {" ", "\n", "\r", "\t"}

\* The characters texts are built from in the append specifications.
Alphabet == {"a", " ", "\n", "\r"}

SetMin(S) == CHOOSE x \in S : \A y \in S : x <= y
SetMax(S) == CHOOSE x \in S : \A y \in S : y <= x

\* All sequences over S of length at most n.
SeqsUpTo(S, n) == UNION {[1..k -> S] : k \in 0..n}

\* str.strip(): drop leading and trailing whitespace.
strip(s) ==
  LET idx == {k \in 1..Len(s) : s[k] \notin Whitespace}
  IN IF idx = {} THEN <<>> ELSE SubSeq(s, SetMin(idx), SetMax(idx))

\* str.rstrip("\n"): drop trailing newline characters only.
rstrip_nl(s) ==
  LET idx == {k \in 1..Len(s) : s[k] # "\n"}
  IN IF idx = {} THEN <<>> ELSE SubSeq(s, 1, SetMax(idx))

\* Path.read_text(): text mode with universal newlines, "\r\n" and a lone
\* "\r" are both read as "\n".
RECURSIVE read_text(_)
read_text(bytes) ==
  IF bytes = <<>> THEN <<>>
  ELSE IF Head(bytes) = "\r"
       THEN IF Len(bytes) >= 2 /\ bytes[2] = "\n"
            THEN read_text(Tail(bytes))
            ELSE <<"\n">> \o read_text(Tail(bytes))
       ELSE <<Head(bytes)>> \o read_text(Tail(bytes))

\* Path.write_text(): text mode, "\n" is written as os.linesep, which is
\* "\n" on the POSIX hosts the program runs on (stat -f, brctl: macOS).
write_text(text) == text

(***************************************************************************)
(* The file system of notes: a function from the paths of the existing     *)
(* note files to their content.                                            *)
(***************************************************************************)
NoFiles == [p \in {} |-> <<>>]

exists(fs, path) == path \in DOMAIN fs

WriteFile(fs, path, text) ==
  [p \in DOMAIN fs \cup {path} |-> IF p = path THEN write_text(text) ELSE fs[p]]

\* append_with_spacing with the emptiness test made on the text as given,
\* not on the stripped text.
append_with_spacing_unstripped_test(fs, target_file, addition) ==
  LET text == strip(addition)
      current == IF exists(fs, target_file) THEN read_text(fs[target_file]) ELSE <<>>
  IN IF addition = <<>> THEN fs
     ELSE IF strip(current) # <<>>
          THEN WriteFile(fs, target_file,
                         rstrip_nl(current) \o <<"\n", "\n">> \o text \o <<"\n">>)
          ELSE WriteFile(fs, target_file, text \o <<"\n">>)

\* append_with_spacing with the prior content taken as it is, its trailing
\* newlines included.
append_with_spacing_no_rstrip(fs, target_file, addition) ==
  LET text == strip(addition)
      current == IF exists(fs, target_file) THEN read_text(fs[target_file]) ELSE <<>>
  IN IF text = <<>> THEN fs
     ELSE IF strip(current) # <<>>
          THEN WriteFile(fs, target_file,
                         current \o <<"\n", "\n">> \o text \o <<"\n">>)
          ELSE WriteFile(fs, target_file, text \o <<"\n">>)

\* append_with_spacing(target_file, addition): the file system after the call.
append_with_spacing(fs, target_file, addition) ==
  LET text == strip(addition)
      current == IF exists(fs, target_file) THEN read_text(fs[target_file]) ELSE <<>>
  IN IF text = <<>> THEN fs
     ELSE IF strip(current) # <<>>
          THEN WriteFile(fs, target_file,
                         rstrip_nl(current) \o <<"\n", "\n">> \o text \o <<"\n">>)
          ELSE WriteFile(fs, target_file, text \o <<"\n">>)

(***************************************************************************)
(* Dates and times (datetime, strptime, strftime).                         *)
(***************************************************************************)
Digits == <<"0", "1", "2", "3", "4", "5", "6", "7", "8", "9">>

IsDigit(c) == \E k \in 1..Len(Digits) : Digits[k] = c

\* int() of one decimal digit.
DigitVal(c) == (CHOOSE k \in 1..Len(Digits) : Digits[k] = c) - 1

\* int() of a run of decimal digits.
RECURSIVE IntOf(_)
IntOf(ds) ==
  IF ds = <<>> THEN 0
  ELSE IntOf(SubSeq(ds, 1, Len(ds) - 1)) * 10 + DigitVal(ds[Len(ds)])

\* n formatted as two, and as four, decimal digits (strftime's %m %d %H %M
\* %S, and its %Y, which the C library of the program's host zero-pads).
Pad2(n) == <<Digits[((n \div 10) % 10) + 1], Digits[(n % 10) + 1]>>
Pad4(n) == Pad2(n \div 100) \o Pad2(n % 100)

DateTime(y, mo, d, h, mi, s) ==
  [year |-> y, month |-> mo, day |-> d, hour |-> h, minute |-> mi, second |-> s]

IsLeap(y) == (y % 4 = 0 /\ y % 100 # 0) \/ y % 400 = 0

DaysInMonth(y, mo) ==
  IF mo = 2 THEN (IF IsLeap(y) THEN 29 ELSE 28)
  ELSE IF mo \in {4, 6, 9, 11} THEN 30 ELSE 31

\* datetime.strptime(text, "%Y-%m-%d %H.%M.%S") of a text of the shape
\* dddd-dd-dd dd.dd.dd (the only shape line 58 passes): the datetime, or
\* ValueError when a field is out of range.
strptime(date, time) ==
  LET y == IntOf(SubSeq(date, 1, 4))
      mo == IntOf(SubSeq(date, 6, 7))
      d == IntOf(SubSeq(date, 9, 10))
      h == IntOf(SubSeq(time, 1, 2))
      mi == IntOf(SubSeq(time, 4, 5))
      s == IntOf(SubSeq(time, 7, 8))
  IN IF /\ y >= 1
        /\ mo \in 1..12
        /\ d >= 1 /\ d <= DaysInMonth(y, mo)
        /\ h <= 23 /\ mi <= 59 /\ s <= 59
     THEN [ok |-> TRUE, value |-> DateTime(y, mo, d, h, mi, s)]
     ELSE [ok |-> FALSE, value |-> "ValueError"]

\* recorded_at.strftime("%Y-%m-%d")
strftime_date(dt) ==
  Pad4(dt.year) \o <<"-">> \o Pad2(dt.month) \o <<"-">> \o Pad2(dt.day)

\* datetime.now().strftime("%Y-%m-%d %H:%M:%S")
strftime_stamp(dt) ==
  strftime_date(dt) \o <<" ">> \o Pad2(dt.hour) \o <<":">> \o Pad2(dt.minute)
    \o <<":">> \o Pad2(dt.second)

(***************************************************************************)
(* extract_recorded_datetime: the regular expression of line 55.           *)
(***************************************************************************)
\* \d{4}-\d{2}-\d{2} matches at position i of name.
DateAt(name, i) ==
  /\ i >= 1 /\ i + 9 <= Len(name)
  /\ \A k \in {0, 1, 2, 3, 5, 6, 8, 9} : IsDigit(name[i + k])
  /\ name[i + 4] = "-" /\ name[i + 7] = "-"

\* \d{2}\.\d{2}\.\d{2} matches at position j of name.
TimeAt(name, j) ==
  /\ j >= 1 /\ j + 7 <= Len(name)
  /\ \A k \in {0, 1, 3, 4, 6, 7} : IsDigit(name[j + k])
  /\ name[j + 2] = "." /\ name[j + 5] = "."

\* The positions <<i, j>> where the date and the time group may match: the
\* time after the date, and no newline between them (. does not match one).
MatchPairs(name) ==
  LET dates == {i \in 1..Len(name) : DateAt(name, i)}
      times == {j \in 1..Len(name) : TimeAt(name, j)}
  IN {p \in dates \X times :
        /\ p[2] >= p[1] + 10
        /\ \A k \in (p[1] + 10)..(p[2] - 1) : name[k] # "\n"}

\* re.search: the leftmost date, then (.*? is lazy) the nearest time.
re_search(name) ==
  LET pairs == MatchPairs(name)
  IN IF pairs = {} THEN [matched |-> FALSE]
     ELSE LET i == SetMin({p[1] : p \in pairs})
              j == SetMin({p[2] : p \in {q \in pairs : q[1] = i}})
          IN [matched |-> TRUE,
              group1 |-> SubSeq(name, i, i + 9),
              group2 |-> SubSeq(name, j, j + 7)]

\* extract_recorded_datetime(file_path), from the file's name and its
\* modification time: [ok |-> TRUE, value |-> datetime], or the exception.
extract_recorded_datetime(name, mtime) ==
  LET match == re_search(name)
  IN IF ~match.matched
     THEN [ok |-> TRUE, value |-> mtime]
     ELSE strptime(match.group1, match.group2)

(***************************************************************************)
(* Paths and directory listing (pathlib).                                  *)
(***************************************************************************)
\* The printable ASCII characters, in code order from 32 (space); six that
\* no text of the model contains are named instead of written.
Ascii ==
  <<" ", "!", "<quote>", "#", "$", "%", "&", "'", "<lparen>", "<rparen>", "<star>", "+", ",", "-", ".", "/",
    "0", "1", "2", "3", "4", "5", "6", "7", "8", "9", ":", ";", "<", "=", ">", "?",
    "@", "A", "B", "C", "D", "E", "F", "G", "H", "I", "J", "K", "L", "M", "N", "O",
    "P", "Q", "R", "S", "T", "U", "V", "W", "X", "Y", "Z", "[", "<backslash>", "]", "^", "_",
    "<backtick>", "a", "b", "c", "d", "e", "f", "g", "h", "i", "j", "k", "l", "m", "n", "o",
    "p", "q", "r", "s", "t", "u", "v", "w", "x", "y", "z", "{", "|", "}", "~">>

\* ord(c)
ord(c) == (CHOOSE k \in 1..Len(Ascii) : Ascii[k] = c) + 31

\* str.lower()
lower(s) ==
  [k \in 1..Len(s) |->
     IF ord(s[k]) >= 65 /\ ord(s[k]) <= 90 THEN Ascii[ord(s[k]) + 32 - 31] ELSE s[k]]

\* a < b for strings: lexicographic by character code.
RECURSIVE StrLess(_, _)
StrLess(a, b) ==
  IF b = <<>> THEN FALSE
  ELSE IF a = <<>> THEN TRUE
  ELSE IF Head(a) = Head(b) THEN StrLess(Tail(a), Tail(b))
  ELSE ord(Head(a)) < ord(Head(b))

\* A path: a directory and the name of an entry in it.
Path(dir, name) == [dir |-> dir, name |-> name]

\* str(path)
PathStr(path) == path.dir \o <<"/">> \o path.name

\* Path.suffix: the name from its last dot on, when that dot is neither the
\* first nor the last character of the name.
suffix(name) ==
  LET dots == {k \in 1..Len(name) : name[k] = "."}
  IN IF dots = {} THEN <<>>
     ELSE LET i == SetMax(dots)
          IN IF i > 1 /\ i < Len(name) THEN SubSeq(name, i, Len(name)) ELSE <<>>

\* str.startswith(".")
startswith_dot(name) == name # <<>> /\ name[1] = "."

(***************************************************************************)
(* Configuration (required_env, load_config).                              *)
(***************************************************************************)
\* The environment variables, in the order load_config reads them.
EnvNames ==
  <<"GEMINI_API_KEY", "NOTES_VOICE_MEMOS_DIR", "COURSE_VOICE_MEMOS_DIR",
    "OBSIDIAN_NOTES_DIR", "OBSIDIAN_COURSE_DIR", "TRANSCRIBE_ERROR_LOG">>

EnvNameSet == {EnvNames[k] : k \in 1..Len(EnvNames)}

\* An environment variable is unset (os.getenv gives None) or holds a text.
Unset == [set |-> FALSE, value |-> <<>>]
Value(text) == [set |-> TRUE, value |-> text]

\* required_env that raises nothing: a missing value is read as empty.
required_env_lenient(environ, name) ==
  [ok |-> TRUE, value |-> environ[name].value]

\* required_env(name): the value, or RuntimeError when it is unset or empty.
required_env(environ, name) ==
  IF ~environ[name].set \/ environ[name].value = <<>>
  THEN [ok |-> FALSE, value |-> <<"Missing required env var: ", name>>]
  ELSE [ok |-> TRUE, value |-> environ[name].value]

\* load_config(): the buckets and the error log, or the RuntimeError of the
\* first required variable that is missing.
load_config(environ) ==
  LET failed == {k \in 1..Len(EnvNames) : ~required_env(environ, EnvNames[k]).ok}
      get(name) == required_env(environ, name).value
  IN IF failed # {}
     THEN [ok |-> FALSE, error |-> required_env(environ, EnvNames[SetMin(failed)]).value]
     ELSE [ok |-> TRUE,
           buckets |->
             [b \in {"notes", "course"} |->
                IF b = "notes"
                THEN [source_dir |-> get("NOTES_VOICE_MEMOS_DIR"),
                      target_dir |-> get("OBSIDIAN_NOTES_DIR")]
                ELSE [source_dir |-> get("COURSE_VOICE_MEMOS_DIR"),
                      target_dir |-> get("OBSIDIAN_COURSE_DIR")]],
           error_log |-> get("TRANSCRIBE_ERROR_LOG")]

\* The order in which main visits the buckets (line 138).
BucketOrder == <<"notes", "course">>

\* MODEL_FALLBACKS (line 18).
MODEL_FALLBACKS ==
  <<<<"gemini-3-flash-preview">>, <<"gemini-2.5-flash">>, <<"gemini-2.5-flash-lite">>>>

(***************************************************************************)
(* The error log and the remote service.                                   *)
(***************************************************************************)
\* log_error(error_log, message): the log file's text after the call.
log_error(log, message) == log \o message \o <<"\n">>

\* separator.join(parts)
RECURSIVE join(_, _)
join(separator, parts) ==
  IF parts = <<>> THEN <<>>
  ELSE IF Len(parts) = 1 THEN parts[1]
  ELSE parts[1] \o separator \o join(separator, Tail(parts))

\* The aggregate message of lines 99-101.
aggregate_message(now, file, errs) ==
  LET details == IF errs # <<>> THEN join(<<" ", "|", " ">>, errs)
                 ELSE <<"no model error captured">>
  IN <<"[">> \o strftime_stamp(now) \o <<"]", " ", "Failed to process file: ">>
       \o PathStr(file) \o <<".", " All model fallbacks failed. Errors: ">> \o details

\* A response of generate_content: its text, or no text at all (None).
NoText == [none |-> TRUE, text |-> <<>>]
Text(t) == [none |-> FALSE, text |-> t]

\* (response.text or "").strip()
response_bullets(response) ==
  strip(IF response.none \/ response.text = <<>> THEN <<>> ELSE response.text)

\* What a model may answer for an audio payload: nothing, blank text, or
\* the bullets of that audio, bare or padded with whitespace.
Responses(audio) ==
  {NoText, Text(<<>>), Text(<<" ", "\n">>),
   Text(<<"-", " ">> \o audio), Text(<<" ", "-", " ">> \o audio \o <<"\n">>)}

\* str(err) of the errors.APIError a model call may raise.
ApiErrors == {<<"429 RESOURCE_EXHAUSTED">>, <<"503 UNAVAILABLE">>}

\* The wall clock readings of datetime.now().
Clock == {DateTime(2024, 3, 2, 8, 0, 0)}

(***************************************************************************)
(* The scenario: the configured directories and what they hold.            *)
(***************************************************************************)
NotesSrc == <<"/memos/notes">>
CourseSrc == <<"/memos/course">>
NotesTgt == <<"/vault/notes">>
CourseTgt == <<"/vault/course">>
ErrLogFile == <<"/logs/transcribe.log">>

FullEnv ==
  [n \in EnvNameSet |->
     CASE n = "GEMINI_API_KEY" -> Value(<<"key">>)
       [] n = "NOTES_VOICE_MEMOS_DIR" -> Value(NotesSrc)
       [] n = "COURSE_VOICE_MEMOS_DIR" -> Value(CourseSrc)
       [] n = "OBSIDIAN_NOTES_DIR" -> Value(NotesTgt)
       [] n = "OBSIDIAN_COURSE_DIR" -> Value(CourseTgt)
       [] OTHER -> Value(ErrLogFile)]

\* The environments a run may start in: complete, or with one required
\* variable unset or set to the empty string.
EnvChoices ==
  {FullEnv} \cup {[FullEnv EXCEPT ![n] = v] : n \in EnvNameSet, v \in {Unset, Value(<<>>)}}

DateToken(y, mo, d) == Pad4(y) \o <<"-">> \o Pad2(mo) \o <<"-">> \o Pad2(d)
TimeToken(h, mi, s) == Pad2(h) \o <<".">> \o Pad2(mi) \o <<".">> \o Pad2(s)
M4a == <<".", "m", "4", "a">>

Entry(path, is_file, mtime, audio) ==
  [path |-> path, is_file |-> is_file, mtime |-> mtime, audio |-> audio]

SomeMtime == DateTime(2023, 7, 4, 9, 0, 0)

\* The directory entries of the scenario, by a short identifier: the path,
\* the kind, the modification time and the audio payload of each, which
\* the program never changes.
EntryOf(f) ==
  CASE f = "A" -> Entry(Path(NotesSrc, DateToken(2024, 3, 1) \o <<" ">>
                                         \o TimeToken(14, 30, 5) \o M4a),
                        TRUE, SomeMtime, <<"A">>)
    [] f = "B" -> Entry(Path(NotesSrc, <<"m", "e", "m", "o", ".", "M", "4", "A">>),
                        TRUE, SomeMtime, <<"B">>)
    [] f = "H" -> Entry(Path(NotesSrc, <<".", "h">> \o M4a), TRUE, SomeMtime, <<"H">>)
    [] f = "T" -> Entry(Path(NotesSrc, <<"a", ".", "t", "x", "t">>),
                        TRUE, SomeMtime, <<"T">>)
    [] f = "D" -> Entry(Path(NotesSrc, <<"d">> \o M4a), FALSE, SomeMtime, <<>>)
    [] f = "F" -> Entry(Path(CourseSrc, DateToken(2024, 3, 1) \o <<" ">>
                                          \o TimeToken(9, 0, 0) \o M4a),
                        TRUE, SomeMtime, <<"F">>)
    [] OTHER -> Entry(Path(CourseSrc, DateToken(2024, 13, 1) \o <<" ">>
                                        \o TimeToken(10, 0, 0) \o M4a),
                      TRUE, SomeMtime, <<"G">>)

\* The entries every scenario holds, and the one (a memo whose name carries
\* month 13) that a scenario may hold.
BaseEntries == {"A", "B", "H", "T", "D", "F"}

\* The entries that are cloud placeholders (stat reports them dataless).
Placeholders == {"B"}

\* The source directories as a run may find them: each entry that is there,
\* with its one changing attribute.
SourceTrees ==
  {[f \in S |-> [dataless |-> f \in Placeholders]] :
     S \in {BaseEntries, BaseEntries \cup {"G"}}}

(***************************************************************************)
(* Directory listing and the filter of main.                               *)
(***************************************************************************)
\* sorted(entries): the entries of one directory in ascending order of name.
RECURSIVE sorted(_)
sorted(entries) ==
  IF entries = {} THEN <<>>
  ELSE LET first == CHOOSE f \in entries :
                      \A g \in entries :
                        g = f \/ StrLess(EntryOf(f).path.name, EntryOf(g).path.name)
       IN <<first>> \o sorted(entries \ {first})

\* source_dir.iterdir(): the entries of the directory.
iterdir(fs, dir) == {f \in DOMAIN fs : EntryOf(f).path.dir = dir}

\* The filter without the test on the leading dot.
eligible_hidden_too(f) ==
  /\ EntryOf(f).is_file
  /\ lower(suffix(EntryOf(f).path.name)) = <<".", "m", "4", "a">>

\* The filter of lines 143-146: a regular file, not hidden, extension .m4a
\* in any letter case.
eligible(f) ==
  /\ EntryOf(f).is_file
  /\ ~startswith_dot(EntryOf(f).path.name)
  /\ lower(suffix(EntryOf(f).path.name)) = <<".", "m", "4", "a">>

\* The note the first memo of the notes bucket goes to.
NoteA == Path(NotesTgt, DateToken(2024, 3, 1) \o <<".", "m", "d">>)

InitialNotes == {NoFiles, [p \in {NoteA} |-> <<"-", " ", "old", "\n">>]}

(***************************************************************************)
(* State.                                                                  *)
(***************************************************************************)
VARIABLES
  environ,          \* os.environ: the required variables
  dirs,             \* the source directories that exist
  files,            \* the entries of the source directories that are there
  notes,            \* the note files, by path
  errlog,           \* the text of the error log file
  trash,            \* the entries moved to the trash
  pc,               \* where the run is
  config,           \* what load_config returned
  bucket_idx,       \* main: position in the bucket loop
  todo,             \* main: the entries of the bucket still to visit
  audio_file,       \* process_audio: the file being processed
  target_file,      \* process_audio: its note
  model_idx,        \* format_transcript_as_bullets: position in MODEL_FALLBACKS
  fallback_errors,  \* format_transcript_as_bullets: the errors so far
  bullets,          \* process_audio: the text the service returned
  exc,              \* the exception that ended the run, or "none"
  hist,             \* history: the steps taken for the file being processed
  attempted,        \* history: the files handed to process_audio, in order
  notes0,           \* history: the note files when the current file was taken up
  errlog0,          \* history: the error log at that moment
  calls,            \* append specifications: the texts appended, in order
  budget,           \* append specifications: the appends still allowed
  rin,              \* resolver specification: the file resolved
  rout,             \* resolver specification: what the resolver returned
  runs              \* rerun specification: the number of the run, and the file
                    \* in flight when the run before it was killed

world == <<environ, dirs, files, notes, errlog, trash>>
locals == <<config, bucket_idx, todo, audio_file, target_file, model_idx,
            fallback_errors, bullets>>
history == <<hist, attempted, notes0, errlog0>>
pure == <<calls, budget, rin, rout>>
vars == <<world, pc, exc, locals, history, pure, runs>>

NoPath == Path(<<>>, <<>>)
Unresolved == [ok |-> FALSE, value |-> "unresolved"]

\* The program before main runs, in a given environment and file system.
Boot(e, d, f, n) ==
  /\ environ = e /\ dirs = d /\ files = f /\ notes = n
  /\ errlog = <<>> /\ trash = {}
  /\ exc = "none"
  /\ config = [ok |-> FALSE, error |-> <<>>]
  /\ bucket_idx = 1 /\ todo = <<>>
  /\ audio_file = "none" /\ target_file = NoPath
  /\ model_idx = 1 /\ fallback_errors = <<>> /\ bullets = <<>>
  /\ hist = <<>> /\ attempted = <<>> /\ notes0 = n /\ errlog0 = <<>>
  /\ runs = [n |-> 1, killed |-> "none"]

\* A file handed to the resolver: its name, its modification time and, for
\* the record, the date and time its name was built around (if any).
ResolverInput(name, mtime, has, embedded) ==
  [name |-> name, mtime |-> mtime, has |-> has, embedded |-> embedded]

Idle == /\ calls = <<>> /\ budget = 0
        /\ rin = ResolverInput(<<>>, SomeMtime, FALSE, SomeMtime)
        /\ rout = Unresolved

Init ==
  /\ \E e \in EnvChoices, d \in SUBSET {NotesSrc, CourseSrc},
        f \in SourceTrees, n \in InitialNotes : Boot(e, d, f, n)
  /\ pc = "start"
  /\ Idle

Event(op, model, res) == [op |-> op, model |-> model, res |-> res]

\* An exception nothing catches: it leaves main, the run is over.
Raise(type) == pc' = "crashed" /\ exc' = type

(***************************************************************************)
(* main (lines 136-147).                                                   *)
(***************************************************************************)
\* Line 137: load_config; a missing variable raises RuntimeError.
LoadConfig ==
  /\ pc = "start"
  /\ config' = load_config(environ)
  /\ IF config'.ok THEN pc' = "buckets" /\ exc' = exc
     ELSE pc' = "aborted" /\ exc' = "RuntimeError"
  /\ UNCHANGED <<world, bucket_idx, todo, audio_file, target_file, model_idx,
                 fallback_errors, bullets, history, pure, runs>>

\* Lines 138-142: the next bucket; one whose source directory does not
\* exist is skipped, the others are listed in sorted order.
EnterBucket ==
  /\ pc = "buckets"
  /\ bucket_idx <= Len(BucketOrder)
  /\ LET source_dir == config.buckets[BucketOrder[bucket_idx]].source_dir
     IN IF source_dir \notin dirs
        THEN bucket_idx' = bucket_idx + 1 /\ UNCHANGED <<pc, todo>>
        ELSE todo' = sorted(iterdir(files, source_dir)) /\ pc' = "files"
             /\ UNCHANGED bucket_idx
  /\ UNCHANGED <<world, exc, config, audio_file, target_file, model_idx,
                 fallback_errors, bullets, history, pure, runs>>

\* The bucket loop is over: main returns.
FinishRun ==
  /\ pc = "buckets"
  /\ bucket_idx > Len(BucketOrder)
  /\ pc' = "done"
  /\ UNCHANGED <<world, exc, locals, history, pure, runs>>

\* The listing of the bucket is exhausted: on to the next bucket.
LeaveBucket ==
  /\ pc = "files"
  /\ todo = <<>>
  /\ bucket_idx' = bucket_idx + 1
  /\ pc' = "buckets"
  /\ UNCHANGED <<world, exc, config, todo, audio_file, target_file, model_idx,
                 fallback_errors, bullets, history, pure, runs>>

\* Lines 143-146: an entry the filter rejects is passed over.
SkipEntry ==
  /\ pc = "files"
  /\ todo # <<>>
  /\ ~eligible(Head(todo))
  /\ todo' = Tail(todo)
  /\ UNCHANGED <<world, pc, exc, config, bucket_idx, audio_file, target_file,
                 model_idx, fallback_errors, bullets, history, pure, runs>>

\* Line 147: process_audio is called on an eligible entry.
TakeFile ==
  /\ pc = "files"
  /\ todo # <<>>
  /\ eligible(Head(todo))
  /\ audio_file' = Head(todo)
  /\ todo' = Tail(todo)
  /\ pc' = "ensure_local"
  /\ hist' = <<>>
  /\ attempted' = Append(attempted, Head(todo))
  /\ notes0' = notes
  /\ errlog0' = errlog
  /\ UNCHANGED <<world, exc, config, bucket_idx, target_file, model_idx,
                 fallback_errors, bullets, pure, runs>>

(***************************************************************************)
(* process_audio (lines 119-133) and what it calls.                        *)
(***************************************************************************)
\* The bucket main is in.
bucket == config.buckets[BucketOrder[bucket_idx]]

\* Line 125, ensure_local_file: a dataless placeholder is asked to download,
\* which may or may not bring the file in; nothing is raised (check=False).
EnsureLocal ==
  /\ pc = "ensure_local"
  /\ IF files[audio_file].dataless
     THEN \E downloaded \in BOOLEAN :
            /\ files' = [files EXCEPT ![audio_file].dataless = ~downloaded]
            /\ hist' = Append(hist, Event("hydrate", 0,
                                          IF downloaded THEN "downloaded" ELSE "dataless"))
     ELSE files' = files /\ hist' = Append(hist, Event("hydrate", 0, "local"))
  /\ pc' = "resolve"
  /\ UNCHANGED <<environ, dirs, notes, errlog, trash, exc, locals, attempted,
                 notes0, errlog0, pure, runs>>

\* Lines 126-128 with the note always put in the target directory of the
\* first bucket.
ResolveTarget_first_target ==
  /\ pc = "resolve"
  /\ LET recorded_at == extract_recorded_datetime(EntryOf(audio_file).path.name,
                                                  EntryOf(audio_file).mtime)
     IN IF recorded_at.ok
        THEN /\ target_file' = Path(config.buckets[BucketOrder[1]].target_dir,
                                    strftime_date(recorded_at.value) \o <<".", "m", "d">>)
             /\ hist' = Append(hist, Event("resolve", 0, "ok"))
             /\ pc' = "read" /\ exc' = exc
        ELSE /\ target_file' = target_file
             /\ hist' = Append(hist, Event("resolve", 0, recorded_at.value))
             /\ Raise(recorded_at.value)
  /\ UNCHANGED <<world, config, bucket_idx, todo, audio_file, model_idx,
                 fallback_errors, bullets, attempted, notes0, errlog0, pure, runs>>

\* Lines 126-128: the recorded date names the note; strptime's ValueError
\* is not caught.
ResolveTarget ==
  /\ pc = "resolve"
  /\ LET recorded_at == extract_recorded_datetime(EntryOf(audio_file).path.name,
                                                  EntryOf(audio_file).mtime)
     IN IF recorded_at.ok
        THEN /\ target_file' = Path(bucket.target_dir,
                                    strftime_date(recorded_at.value) \o <<".", "m", "d">>)
             /\ hist' = Append(hist, Event("resolve", 0, "ok"))
             /\ pc' = "read" /\ exc' = exc
        ELSE /\ target_file' = target_file
             /\ hist' = Append(hist, Event("resolve", 0, recorded_at.value))
             /\ Raise(recorded_at.value)
  /\ UNCHANGED <<world, config, bucket_idx, todo, audio_file, model_idx,
                 fallback_errors, bullets, attempted, notes0, errlog0, pure, runs>>

\* Line 88: the audio bytes are read.
ReadAudio ==
  /\ pc = "read"
  /\ hist' = Append(hist, Event("read", 0, "ok"))
  /\ model_idx' = 1
  /\ fallback_errors' = <<>>
  /\ pc' = "call"
  /\ UNCHANGED <<world, exc, config, bucket_idx, todo, audio_file, target_file,
                 bullets, attempted, notes0, errlog0, pure, runs>>

\* Line 88 on a placeholder that was not brought in: the read may fail, and
\* its OSError is not caught.
ReadFails ==
  /\ pc = "read"
  /\ files[audio_file].dataless
  /\ hist' = Append(hist, Event("read", 0, "OSError"))
  /\ Raise("OSError")
  /\ UNCHANGED <<world, locals, attempted, notes0, errlog0, pure, runs>>

\* Lines 93-94 without the return: the text is kept and the loop goes on
\* to the next model.
CallReturns_loop_goes_on ==
  /\ pc = "call"
  /\ model_idx <= Len(MODEL_FALLBACKS)
  /\ \E response \in Responses(EntryOf(audio_file).audio) :
       bullets' = response_bullets(response)
  /\ hist' = Append(hist, Event("call", model_idx, "text"))
  /\ model_idx' = model_idx + 1
  /\ UNCHANGED <<world, pc, exc, config, bucket_idx, todo, audio_file, target_file,
                 fallback_errors, attempted, notes0, errlog0, pure, runs>>

\* Lines 93-94: the model answers; its text, stripped, is returned.
CallReturns ==
  /\ pc = "call"
  /\ model_idx <= Len(MODEL_FALLBACKS)
  /\ \E response \in Responses(EntryOf(audio_file).audio) :
       bullets' = response_bullets(response)
  /\ hist' = Append(hist, Event("call", model_idx, "text"))
  /\ pc' = "append"
  /\ UNCHANGED <<world, exc, config, bucket_idx, todo, audio_file, target_file,
                 model_idx, fallback_errors, attempted, notes0, errlog0, pure, runs>>

\* Lines 95-98: the model call raises errors.APIError; the error is kept,
\* logged as it is, and the loop goes on to the next model.
CallApiError ==
  /\ pc = "call"
  /\ model_idx <= Len(MODEL_FALLBACKS)
  /\ \E err \in ApiErrors :
       /\ fallback_errors' =
            Append(fallback_errors, MODEL_FALLBACKS[model_idx] \o <<":", " ">> \o err)
       /\ errlog' = log_error(errlog, err)
  /\ hist' = hist \o <<Event("call", model_idx, "APIError"),
                       Event("log", model_idx, "model")>>
  /\ model_idx' = model_idx + 1
  /\ UNCHANGED <<environ, dirs, files, notes, trash, pc, exc, config, bucket_idx,
                 todo, audio_file, target_file, bullets, attempted, notes0, errlog0, pure, runs>>

\* Line 93 raising anything else (a connection error of the HTTP client is
\* no errors.APIError): no handler, the exception leaves main.
CallOtherError ==
  /\ pc = "call"
  /\ model_idx <= Len(MODEL_FALLBACKS)
  /\ hist' = Append(hist, Event("call", model_idx, "ConnectError"))
  /\ Raise("ConnectError")
  /\ UNCHANGED <<world, locals, attempted, notes0, errlog0, pure, runs>>

\* Lines 99-104 and 130-131: every model failed; the aggregate message is
\* logged, None is returned and process_audio returns.
LogAggregate ==
  /\ pc = "call"
  /\ model_idx > Len(MODEL_FALLBACKS)
  /\ \E now \in Clock :
       LET message == aggregate_message(now, EntryOf(audio_file).path, fallback_errors)
       IN errlog' = log_error(errlog, message)
  /\ hist' = Append(hist, Event("log", 0, "aggregate"))
  /\ pc' = "files"
  /\ UNCHANGED <<environ, dirs, files, notes, trash, exc, locals, attempted,
                 notes0, errlog0, pure, runs>>

\* Lines 130-133 with an empty answer treated as no answer (`if not
\* bullets: return`): process_audio returns before the trash step.
AppendNote_returns_on_empty ==
  /\ pc = "append"
  /\ notes' = append_with_spacing(notes, target_file, bullets)
  /\ hist' = Append(hist, Event("append", 0, "ok"))
  /\ pc' = IF bullets = <<>> THEN "files" ELSE "trash"
  /\ UNCHANGED <<environ, dirs, files, errlog, trash, exc, locals, attempted,
                 notes0, errlog0, pure, runs>>

\* Line 132: the bullets are appended to the note.
AppendNote ==
  /\ pc = "append"
  /\ notes' = append_with_spacing(notes, target_file, bullets)
  /\ hist' = Append(hist, Event("append", 0, "ok"))
  /\ pc' = "trash"
  /\ UNCHANGED <<environ, dirs, files, errlog, trash, exc, locals, attempted,
                 notes0, errlog0, pure, runs>>

\* Line 132 failing with the failure swallowed: process_audio goes on to
\* line 133.
AppendFails_swallowed ==
  /\ pc = "append"
  /\ bullets # <<>>
  /\ hist' = Append(hist, Event("append", 0, "OSError"))
  /\ pc' = "trash"
  /\ UNCHANGED <<world, exc, locals, attempted, notes0, errlog0, pure, runs>>

\* Line 132 failing (the vault cannot be written): OSError, not caught.
AppendFails ==
  /\ pc = "append"
  /\ bullets # <<>>
  /\ hist' = Append(hist, Event("append", 0, "OSError"))
  /\ Raise("OSError")
  /\ UNCHANGED <<world, locals, attempted, notes0, errlog0, pure, runs>>

\* Line 133: the source file is moved to the trash.
MoveToTrash ==
  /\ pc = "trash"
  /\ files' = [p \in DOMAIN files \ {audio_file} |-> files[p]]
  /\ trash' = trash \cup {audio_file}
  /\ hist' = Append(hist, Event("trash", 0, "ok"))
  /\ pc' = "files"
  /\ UNCHANGED <<environ, dirs, notes, errlog, exc, locals, attempted, notes0, errlog0, pure, runs>>

\* Line 133 failing: send2trash raises, not caught.
TrashFails ==
  /\ pc = "trash"
  /\ hist' = Append(hist, Event("trash", 0, "OSError"))
  /\ Raise("OSError")
  /\ UNCHANGED <<world, locals, attempted, notes0, errlog0, pure, runs>>

Next ==
  \/ LoadConfig \/ EnterBucket \/ FinishRun \/ LeaveBucket \/ SkipEntry \/ TakeFile
  \/ EnsureLocal \/ ResolveTarget \/ ReadAudio \/ ReadFails
  \/ CallReturns \/ CallApiError \/ CallOtherError \/ LogAggregate
  \/ AppendNote \/ AppendFails \/ MoveToTrash \/ TrashFails

Spec == Init /\ [][Next]_vars

(***************************************************************************)
(* Runs one after the other: a run may be terminated from outside at any   *)
(* step, and the program is started again on what the run before it left   *)
(* (the scheduler invokes main anew, lines 150-151).                       *)
(***************************************************************************)
\* The process is killed between two steps of main; what it wrote so far
\* stays as it is.
Kill ==
  /\ pc \in {"start", "buckets", "files", "ensure_local", "resolve", "read",
             "call", "append", "trash"}
  /\ runs.n < MaxRuns
  /\ runs' = [runs EXCEPT
                !.killed = IF pc \in {"ensure_local", "resolve", "read", "call",
                                      "append", "trash"}
                           THEN audio_file ELSE "none"]
  /\ pc' = "killed"
  /\ UNCHANGED <<world, exc, locals, history, pure>>

\* The next invocation: a new process, with the files, notes, log and trash
\* as the run before it left them.
Restart ==
  /\ pc \in {"killed", "done", "crashed"}
  /\ runs.n < MaxRuns
  /\ runs' = [n |-> runs.n + 1, killed |-> IF pc = "killed" THEN runs.killed ELSE "none"]
  /\ pc' = "start" /\ exc' = "none"
  /\ config' = [ok |-> FALSE, error |-> <<>>]
  /\ bucket_idx' = 1 /\ todo' = <<>>
  /\ audio_file' = "none" /\ target_file' = NoPath
  /\ model_idx' = 1 /\ fallback_errors' = <<>> /\ bullets' = <<>>
  /\ hist' = <<>> /\ attempted' = <<>> /\ notes0' = notes /\ errlog0' = errlog
  /\ UNCHANGED <<world, pure>>

\* The notes bucket holds a memo that is a cloud placeholder and a hidden
\* file; the course bucket, when its directory exists, a memo whose name
\* carries month 13. No note yet.
RerunTree == [f \in {"A", "G", "H"} |-> [dataless |-> f = "A"]]

InitRerun ==
  /\ \E d \in {{NotesSrc}, {NotesSrc, CourseSrc}} :
       Boot(FullEnv, d, [f \in {g \in DOMAIN RerunTree : EntryOf(g).path.dir \in d}
                          |-> RerunTree[f]], NoFiles)
  /\ pc = "start"
  /\ Idle

NextRerun == Next \/ Kill \/ Restart

SpecRerun == InitRerun /\ [][NextRerun]_vars

(***************************************************************************)
(* append_with_spacing on its own: texts of every shape, appended to one   *)
(* note.                                                                   *)
(***************************************************************************)
Texts == SeqsUpTo(Alphabet, MaxTextLen)

AppendTarget == Path(NotesTgt, DateToken(2024, 3, 1) \o <<".", "m", "d">>)

\* The program as a library: main is not running.
Library(n) ==
  /\ Boot(FullEnv, {}, [f \in {} |-> [dataless |-> FALSE]], n)
  /\ pc = "library"

\* One call append_with_spacing(AppendTarget, text).
AppendCall ==
  /\ budget > 0
  /\ \E text \in Texts :
       /\ notes' = append_with_spacing(notes, AppendTarget, text)
       /\ calls' = Append(calls, text)
  /\ notes0' = notes
  /\ budget' = budget - 1
  /\ UNCHANGED <<environ, dirs, files, errlog, trash, pc, exc, locals, hist,
                 attempted, errlog0, rin, rout, runs>>

\* A sequence of appends to a note that does not exist at first.
InitAppendSeq ==
  /\ Library(NoFiles)
  /\ calls = <<>> /\ budget = MaxAppends
  /\ rin = ResolverInput(<<>>, SomeMtime, FALSE, SomeMtime) /\ rout = Unresolved

SpecAppendSeq == InitAppendSeq /\ [][AppendCall]_vars

\* The states a note may be in before a call: absent, or with any content.
PriorNotes ==
  {NoFiles} \cup {[p \in {AppendTarget} |-> c] : c \in SeqsUpTo(Alphabet, MaxInitLen)}

\* One append to a note in any prior state.
InitAppend ==
  /\ \E n \in PriorNotes : Library(n)
  /\ calls = <<>> /\ budget = 1
  /\ rin = ResolverInput(<<>>, SomeMtime, FALSE, SomeMtime) /\ rout = Unresolved

SpecAppend == InitAppend /\ [][AppendCall]_vars

(***************************************************************************)
(* extract_recorded_datetime on its own: file names of every shape.        *)
(***************************************************************************)
\* Years, months, days and times a name may carry, in and out of range.
NameDates == {<<2024, 3, 1>>, <<2024, 2, 29>>, <<2023, 2, 29>>, <<2024, 13, 1>>,
              <<2024, 4, 31>>, <<0, 1, 1>>, <<1999, 12, 31>>}
NameTimes == {<<14, 30, 5>>, <<0, 0, 0>>, <<23, 59, 59>>, <<24, 0, 0>>, <<23, 59, 60>>}
NamePrefixes == {<<>>, <<"V", "o", "i", "c", "e", " ">>, <<"7">>}
NameMiddles == {<<>>, <<" ", "a", "t", " ">>, <<" ", "1">>, <<"\n">>}
NameSuffixes == {M4a, <<"5">> \o M4a}
Mtimes == {SomeMtime, DateTime(2024, 3, 1, 14, 30, 5)}

\* Names holding a date token followed by a time token.
DatedInputs ==
  {ResolverInput(pre \o DateToken(d[1], d[2], d[3]) \o mid
                   \o TimeToken(t[1], t[2], t[3]) \o suf,
                 m, TRUE, DateTime(d[1], d[2], d[3], t[1], t[2], t[3])) :
     pre \in NamePrefixes, d \in NameDates, mid \in NameMiddles, t \in NameTimes,
     suf \in NameSuffixes, m \in Mtimes}

\* Names without a date token followed by a time token.
UndatedInputs ==
  {ResolverInput(name, m, FALSE, m) :
     name \in {<<"m", "e", "m", "o">> \o M4a,
               DateToken(2024, 3, 1) \o M4a,
               TimeToken(14, 30, 5) \o M4a,
               TimeToken(14, 30, 5) \o <<" ">> \o DateToken(2024, 3, 1) \o M4a,
               DateToken(2024, 3, 1) \o <<".", "3", "0", ".", "0", "5">> \o M4a,
               <<"2", "4", "-", "0", "3", "-", "0", "1", " ">> \o TimeToken(14, 30, 5)},
     m \in Mtimes}

\* One call extract_recorded_datetime(file_path).
ResolveCall ==
  /\ rout = Unresolved
  /\ rin.name # <<>>
  /\ rout' = extract_recorded_datetime(rin.name, rin.mtime)
  /\ UNCHANGED <<world, pc, exc, locals, history, calls, budget, rin, runs>>

InitResolve ==
  /\ Library(NoFiles)
  /\ calls = <<>> /\ budget = 0
  /\ rin \in DatedInputs \cup UndatedInputs
  /\ rout = Unresolved

SpecResolve == InitResolve /\ [][ResolveCall]_vars

(***************************************************************************)
(* Vocabulary of the properties.                                           *)
(***************************************************************************)
Last(seq) == seq[Len(seq)]

\* The positions of hist holding a model call, and those that failed.
CallSteps == {k \in 1..Len(hist) : hist[k].op = "call"}
FailedCallSteps == {k \in CallSteps : hist[k].res # "text"}
Did(op, res) == \E k \in 1..Len(hist) : hist[k].op = op /\ hist[k].res = res

\* The processing of the current file is over: process_audio returned or
\* an exception left it.
FileOver == audio_file # "none" /\ pc \in {"files", "buckets", "done", "crashed"}

\* The lines of a text file, each ended by a newline.
RECURSIVE Lines(_)
Lines(text) ==
  LET ends == {k \in 1..Len(text) : text[k] = "\n"}
  IN IF ends = {} THEN (IF text = <<>> THEN <<>> ELSE <<text>>)
     ELSE <<SubSeq(text, 1, SetMin(ends) - 1)>>
            \o Lines(SubSeq(text, SetMin(ends) + 1, Len(text)))

\* The records added to the error log since the current file was taken up.
NewRecords == SubSeq(Lines(errlog), Len(Lines(errlog0)) + 1, Len(Lines(errlog)))

IsAggregate(record) ==
  \E k \in 1..Len(record) : record[k] = " All model fallbacks failed. Errors: "

\* C1: once a model has returned text for the file, no further model is
\* called for it (the calls go down the fallback list one by one and a
\* success is the last of them), and the file is in the trash only when the
\* append to its note has returned before the move.
C1_FirstSuccessEndsFallback ==
  /\ \A k \in CallSteps :
       /\ hist[k].model = Cardinality({j \in CallSteps : j <= k})
       /\ hist[k].res = "text" => \A j \in CallSteps : j <= k
  /\ \A k \in 1..Len(hist) :
       hist[k].op = "trash" /\ hist[k].res = "ok" =>
         /\ audio_file \in trash
         /\ \E j \in 1..(k - 1) : hist[j].op = "append" /\ hist[j].res = "ok"
  /\ (audio_file # "none" /\ audio_file \in trash /\ hist # <<>>) =>
       Did("append", "ok")

\* C1 witness: the last model of the list answered after the others failed,
\* and the file went to the trash.
C1_Witness ==
  /\ \E k \in CallSteps : hist[k].model = Len(MODEL_FALLBACKS) /\ hist[k].res = "text"
  /\ audio_file \in trash
  /\ Did("trash", "ok")

\* C2: when every configured model has failed for the file, the file stays
\* where it is, no note is created or modified, and the error log gains one
\* record per failed model plus exactly one aggregate record.
C2_AllModelsFail ==
  (FileOver /\ Cardinality(FailedCallSteps) = Len(MODEL_FALLBACKS)) =>
    /\ audio_file \in DOMAIN files /\ audio_file \notin trash
    /\ notes = notes0
    /\ Len(NewRecords) = Len(MODEL_FALLBACKS) + 1
    /\ Cardinality({k \in 1..Len(NewRecords) : IsAggregate(NewRecords[k])}) = 1

\* C3: no failure of a step of one file's processing ends the run: the run
\* never stops on an exception, and when it is done every eligible file of
\* every existing bucket was handed to process_audio.
C3_RunNeverAborted ==
  /\ pc # "crashed"
  /\ pc = "done" =>
       \A f \in DOMAIN files \cup trash :
         (eligible(f) /\ EntryOf(f).path.dir \in dirs) =>
           \E k \in 1..Len(attempted) : attempted[k] = f

\* C4: a service-level error of a model call never stops the fallback
\* loop: it is logged on its own and, unless it was the last model, the next
\* model of the list is called.
C4_ServiceErrorContinues ==
  \A k \in FailedCallSteps :
    /\ ~(pc = "crashed" /\ k = Len(hist))
    /\ k < Len(hist) => hist[k + 1] = Event("log", hist[k].model, "model")
    /\ (k + 2 <= Len(hist) /\ hist[k].model < Len(MODEL_FALLBACKS)) =>
         hist[k + 2].op = "call" /\ hist[k + 2].model = hist[k].model + 1

\* Whitespace-only (or empty) text, and text trimmed of the whitespace at
\* both ends.
IsBlank(text) == \A k \in 1..Len(text) : text[k] \in Whitespace

RECURSIVE TrimLeft(_)
TrimLeft(text) ==
  IF text # <<>> /\ Head(text) \in Whitespace THEN TrimLeft(Tail(text)) ELSE text

RECURSIVE TrimRight(_)
TrimRight(text) ==
  IF text # <<>> /\ Last(text) \in Whitespace
  THEN TrimRight(SubSeq(text, 1, Len(text) - 1)) ELSE text

Trimmed(text) == TrimRight(TrimLeft(text))

EndsWith(text, tail) ==
  Len(tail) <= Len(text) /\ SubSeq(text, Len(text) - Len(tail) + 1, Len(text)) = tail

\* C5: starting from a note that does not exist, appending texts t1..tn,
\* none of them blank, leaves the note holding exactly
\* trim(t1) "\n\n" trim(t2) ... "\n\n" trim(tn) "\n".
C5_AppendSequence ==
  (calls # <<>> /\ \A k \in 1..Len(calls) : ~IsBlank(calls[k])) =>
    /\ exists(notes, AppendTarget)
    /\ notes[AppendTarget] =
         join(<<"\n", "\n">>, [k \in 1..Len(calls) |-> Trimmed(calls[k])]) \o <<"\n">>

\* C6: appending an empty or whitespace-only text changes nothing: the note
\* is neither created nor modified, whatever state it was in.
C6_BlankAppendNoOp ==
  (calls # <<>> /\ IsBlank(Last(calls))) => notes = notes0

\* C6 witness: a blank but non-empty text was appended to a note that holds
\* content, and another to a note that does not exist.
C6_Witness ==
  /\ calls # <<>> /\ IsBlank(Last(calls)) /\ Last(calls) # <<>>
  /\ exists(notes0, AppendTarget) /\ ~IsBlank(notes0[AppendTarget])

\* C7: the resolver never fails: it returns the date and time the name was
\* built around when the name holds a date token followed by a time token,
\* and the modification time otherwise.
C7_ResolverNeverFails ==
  (rout.ok \/ rout.value # "unresolved") =>
    /\ rout.ok
    /\ rout.value = (IF rin.has THEN rin.embedded ELSE rin.mtime)

\* A record of the form [YYYY-MM-DD HH:MM:SS] message, on one line.
IsStampedRecord(line) ==
  /\ Len(line) >= 22
  /\ line[1] = "[" /\ line[21] = "]" /\ line[22] = " "
  /\ \A k \in {2, 3, 4, 5, 7, 8, 10, 11, 13, 14, 16, 17, 19, 20} : IsDigit(line[k])
  /\ line[6] = "-" /\ line[9] = "-" /\ line[12] = " "
  /\ line[15] = ":" /\ line[18] = ":"

\* C8: every record of the error log, per-model and aggregate alike, is one
\* line of the form [YYYY-MM-DD HH:MM:SS] message.
C8_LogRecordFormat ==
  \A k \in 1..Len(Lines(errlog)) : IsStampedRecord(Lines(errlog)[k])

\* The service returned text for the current file and the append returned.
Succeeded == Did("call", "text") /\ Did("append", "ok")

\* C9: a source file goes to the trash only after a model returned text for
\* it and the append returned normally, its non-empty transcript then being
\* the end of its note; a file whose transcription or append failed is still
\* in its source directory, and not in the trash, when its processing is over.
C9_TrashOnlyAfterSuccess ==
  [][
      /\ (trash' # trash) =>
           (/\ trash' = trash \cup {audio_file} /\ audio_file \notin DOMAIN files'
            /\ Succeeded
            /\ (bullets # <<>>) =>
                 (/\ exists(notes, target_file)
                  /\ EndsWith(notes[target_file], bullets \o <<"\n">>)))
      /\ (DOMAIN files' # DOMAIN files) => (trash' # trash)
      /\ (FileOver' /\ ~Succeeded') =>
           (audio_file' \in DOMAIN files' /\ audio_file' \notin trash')
    ]_vars

\* C9 witness: a file with a non-empty transcript is in the trash.
C9_Witness ==
  /\ audio_file \in trash /\ audio_file \notin DOMAIN files
  /\ bullets # <<>> /\ Succeeded

\* A required configuration value is missing: unset, or set to nothing.
ConfigMissing == \E n \in EnvNameSet : ~environ[n].set \/ environ[n].value = <<>>

\* C10: with a required configuration value missing the run stops before
\* the bucket loop: no file is taken up, read or sent to a model, no note is
\* written, nothing is logged and nothing is trashed.
C10_MissingConfigAborts ==
  ConfigMissing =>
    /\ pc \in {"start", "aborted"}
    /\ attempted = <<>> /\ hist = <<>>
    /\ notes = notes0 /\ errlog = <<>> /\ trash = {}
    /\ (pc = "aborted") => (exc = "RuntimeError" /\ ~config.ok)

\* C10 witness: the run was aborted by the missing value.
C10_Witness == ConfigMissing /\ pc = "aborted" /\ exc = "RuntimeError"

\* A file is in flight: process_audio has been entered and has not returned.
InFlight == pc \in {"ensure_local", "resolve", "read", "call", "append", "trash"}

\* The entries the source directories held when the run started.
EntriesAtStart == DOMAIN files \cup trash

\* What the filter is meant to let through: a regular file whose name does
\* not start with a dot and ends in .m4a, in any letter case.
ShouldProcess(f) ==
  LET name == EntryOf(f).path.name
      n == Len(name)
  IN /\ EntryOf(f).is_file
     /\ name[1] # "."
     /\ n > 4
     /\ name[n - 3] = "."
     /\ name[n - 2] \in {"m", "M"} /\ name[n - 1] = "4" /\ name[n] \in {"a", "A"}

\* The place of a file in the order of a run: its bucket, then its name.
BucketRank(f) == IF EntryOf(f).path.dir = NotesSrc THEN 1 ELSE 2
Before(f, g) ==
  \/ BucketRank(f) < BucketRank(g)
  \/ /\ BucketRank(f) = BucketRank(g)
     /\ StrLess(EntryOf(f).path.name, EntryOf(g).path.name)

\* The files handed to process_audio come in the order of the run.
AttemptedInOrder ==
  \A i, j \in 1..Len(attempted) : (i < j) => Before(attempted[i], attempted[j])

\* C11: the files are taken up bucket by bucket, notes before course, in
\* ascending order of name within a bucket, one at a time; a bucket whose
\* source directory is missing is passed over and the other one is still
\* visited; and when the run has ended, every eligible file of an existing
\* source directory has been taken up exactly once.
C11_OrderedCompleteRun ==
  /\ AttemptedInOrder
  /\ InFlight => (attempted # <<>> /\ audio_file = Last(attempted))
  /\ (pc \in {"done", "crashed"}) =>
       (\A f \in EntriesAtStart :
          (ShouldProcess(f) /\ EntryOf(f).path.dir \in dirs) =>
            (\E i \in 1..Len(attempted) : attempted[i] = f))

\* The part of C11 that needs no run to reach its end: the order, and the
\* completeness of the runs that leave main by its last line.
C11_OrderAndNormalEnd ==
  /\ AttemptedInOrder
  /\ InFlight => (attempted # <<>> /\ audio_file = Last(attempted))
  /\ \A i \in 1..Len(attempted) :
       ShouldProcess(attempted[i]) /\ EntryOf(attempted[i]).path.dir \in dirs
  /\ (pc = "done") =>
       (\A f \in EntriesAtStart :
          (ShouldProcess(f) /\ EntryOf(f).path.dir \in dirs) =>
            (\E i \in 1..Len(attempted) : attempted[i] = f))

\* All the models have been called for the current file and every call
\* failed.
AllModelsFailed ==
  /\ FileOver
  /\ Cardinality(CallSteps) = Len(MODEL_FALLBACKS)
  /\ FailedCallSteps = CallSteps

\* What the aggregate record says of model i, given the plain records.
PairOf(i, records) == MODEL_FALLBACKS[i] \o <<":", " ">> \o records[i]

\* text holds part somewhere.
Contains(text, part) ==
  \E k \in 0..(Len(text) - Len(part)) : SubSeq(text, k + 1, k + Len(part)) = part

\* C12: when every model failed for a file, the error log has received one
\* plain record per model, in list order and each before the next model was
\* called, and then one aggregate record naming the file and giving every
\* model-name/error pair in attempt order, joined by " | ".
C12_FailureRecordsInOrder ==
  AllModelsFailed =>
    LET n == Len(MODEL_FALLBACKS)
        records == NewRecords
    IN /\ \A k \in FailedCallSteps :
            /\ k < Len(hist)
            /\ hist[k + 1].op = "log" /\ hist[k + 1].model = hist[k].model
       /\ Len(records) = n + 1
       /\ \A i \in 1..n : ~IsAggregate(records[i])
       /\ IsAggregate(records[n + 1])
       /\ Contains(records[n + 1], PathStr(EntryOf(audio_file).path))
       /\ EndsWith(records[n + 1],
                   PairOf(1, records) \o <<" ", "|", " ">> \o PairOf(2, records)
                     \o <<" ", "|", " ">> \o PairOf(3, records))

\* The same, for the files whose every call ended in the service's own
\* error type.
C12_ApiErrorsOnly ==
  (AllModelsFailed /\ \A k \in CallSteps : hist[k].res = "APIError") =>
    LET n == Len(MODEL_FALLBACKS)
        records == NewRecords
    IN /\ Len(records) = n + 1
       /\ \A i \in 1..n : ~IsAggregate(records[i])
       /\ IsAggregate(records[n + 1])
       /\ Contains(records[n + 1], PathStr(EntryOf(audio_file).path))
       /\ EndsWith(records[n + 1],
                   PairOf(1, records) \o <<" ", "|", " ">> \o PairOf(2, records)
                     \o <<" ", "|", " ">> \o PairOf(3, records))

\* The last call appended a text that is not blank to a note that held
\* text.
AppendedToContent ==
  /\ calls # <<>> /\ ~IsBlank(Last(calls))
  /\ exists(notes0, AppendTarget) /\ ~IsBlank(notes0[AppendTarget])

\* The whitespace a text ends with, and the number of newlines in a text.
TrailingWhitespace(text) == SubSeq(text, Len(TrimRight(text)) + 1, Len(text))
NewlineCount(text) == Cardinality({k \in 1..Len(text) : text[k] = "\n"})

\* The new block as the note is to hold it, and what the note holds before
\* it.
NewBlock == Trimmed(Last(calls)) \o <<"\n">>
BeforeNewBlock ==
  SubSeq(notes[AppendTarget], 1, Len(notes[AppendTarget]) - Len(NewBlock))

\* Between the last text of the old block and the new block there are the
\* end of the old block's last line and one blank line, no more: two
\* newlines, the second one right before the new block. A line of spaces
\* counts as a blank line.
OneBlankLineBetween ==
  /\ exists(notes, AppendTarget)
  /\ EndsWith(notes[AppendTarget], NewBlock)
  /\ ~IsBlank(BeforeNewBlock)
  /\ NewlineCount(TrailingWhitespace(BeforeNewBlock)) = 2
  /\ Last(BeforeNewBlock) = "\n"

\* C13 as stated: whatever whitespace the existing content ends with
\* (spaces, tabs, whitespace-only lines, several newlines), after a text
\* that is not blank is appended exactly one blank line separates the old
\* block from the new one and the note ends with exactly one newline.
C13_Original == AppendedToContent => OneBlankLineBetween

\* The content has a space or a tab after the line break that ends its last
\* line of text: it ends with a whitespace-only line that is not empty.
EndsWithSpaceLine(text) ==
  LET w == TrailingWhitespace(text)
  IN \E i, j \in 1..Len(w) :
       i < j /\ w[i] \in {"\n", "\r"} /\ w[j] \in {" ", "\t"}

\* C13: when the existing content holds text and has no space or tab after
\* the line break that ends its last line of text (it may end in spaces on
\* that line, or in several newlines), after a text that is not blank is
\* appended exactly one blank line separates the old block from the new one
\* and the note ends with exactly one newline; when it has such spaces, the
\* whitespace-only line they make is kept and the blank line comes after
\* it, so more than one blank line separates the blocks.
C13_OneBlankLine ==
  AppendedToContent =>
    /\ EndsWith(notes[AppendTarget], NewBlock)
    /\ (~EndsWithSpaceLine(notes0[AppendTarget])) => OneBlankLineBetween
    /\ EndsWithSpaceLine(notes0[AppendTarget]) =>
         (NewlineCount(TrailingWhitespace(BeforeNewBlock)) > 2)

\* C13 witness: text was appended to a note ending in a space and a
\* newline, or in two newlines.
C13_Witness ==
  /\ AppendedToContent
  /\ \/ EndsWith(notes0[AppendTarget], <<" ", "\n">>)
     \/ EndsWith(notes0[AppendTarget], <<"\n", "\n">>)
  /\ OneBlankLineBetween

\* A text without the newlines it ends with.
RECURSIVE WithoutTrailingNewlines(_)
WithoutTrailingNewlines(text) ==
  IF text # <<>> /\ Last(text) = "\n"
  THEN WithoutTrailingNewlines(SubSeq(text, 1, Len(text) - 1)) ELSE text

StartsWith(text, head) ==
  Len(head) <= Len(text) /\ SubSeq(text, 1, Len(head)) = head

\* C14: an append never loses prior content: when the note held text before
\* the call, what it holds after the call begins with what it held, less
\* the trailing newlines.
C14_PriorContentKept ==
  (calls # <<>> /\ exists(notes0, AppendTarget) /\ ~IsBlank(notes0[AppendTarget])) =>
    /\ exists(notes, AppendTarget)
    /\ StartsWith(notes[AppendTarget], WithoutTrailingNewlines(notes0[AppendTarget]))

\* The same, for prior content without carriage returns.
C14_WithoutCarriageReturns ==
  (/\ calls # <<>> /\ exists(notes0, AppendTarget) /\ ~IsBlank(notes0[AppendTarget])
   /\ \A k \in 1..Len(notes0[AppendTarget]) : notes0[AppendTarget][k] # "\r") =>
    /\ exists(notes, AppendTarget)
    /\ StartsWith(notes[AppendTarget], WithoutTrailingNewlines(notes0[AppendTarget]))

\* A model answered for the current file and its answer, once trimmed, is
\* empty.
EmptySuccess == audio_file # "none" /\ Did("call", "text") /\ bullets = <<>>

\* C15: an answer that is empty or whitespace-only counts as a success: it
\* is the last call made for the file, the error log gets no record for it
\* (the records of the file are those of the models that failed before it,
\* and no aggregate record), no note is created or modified, and the source
\* file goes on to the trash step: when its processing is over it is in the
\* trash, unless the move to the trash itself failed.
C15_EmptyTextIsSuccess ==
  EmptySuccess =>
    /\ \A k \in CallSteps : (hist[k].res = "text") => (k = SetMax(CallSteps))
    /\ \A k \in 1..Len(hist) : (hist[k].op = "log") => (k < SetMax(CallSteps))
    /\ Len(NewRecords) = Cardinality(FailedCallSteps)
    /\ \A i \in 1..Len(NewRecords) : ~IsAggregate(NewRecords[i])
    /\ notes = notes0
    /\ pc \in {"append", "trash", "files", "buckets", "done", "crashed"}
    /\ (pc = "crashed") => (exc = "OSError" /\ Did("trash", "OSError"))
    /\ FileOver =>
         \/ audio_file \in trash /\ audio_file \notin DOMAIN files
         \/ Did("trash", "OSError")

\* C15 witness: a file whose answer was empty is in the trash, no note has
\* been created for it, and a model had failed for it before the answer.
C15_Witness ==
  /\ EmptySuccess /\ pc = "files"
  /\ audio_file \in trash
  /\ ~exists(notes, target_file)
  /\ FailedCallSteps # {}

\* C17: only the regular files whose name does not start with a dot and
\* whose extension is .m4a in any letter case are processed; every other
\* entry stays as it was in its source directory, is never handed to
\* process_audio and never trashed, and the notes, the error log, the
\* source directories and the trash change only while an eligible file is
\* in flight.
C17_OnlyEligibleProcessed ==
  [][
      /\ \A i \in 1..Len(attempted') : ShouldProcess(attempted'[i])
      /\ (audio_file' # "none") => ShouldProcess(audio_file')
      /\ \A f \in EntriesAtStart :
           (~ShouldProcess(f)) =>
             (/\ f \in DOMAIN files' /\ f \notin trash'
              /\ files'[f] = files[f])
      /\ (world' # world) => (InFlight /\ ShouldProcess(audio_file))
    ]_vars

\* C17 witness: the run is over; the memo with the upper-case extension has
\* been processed and trashed, and the hidden file, the text file and the
\* directory named like a memo are where they were.
C17_Witness ==
  /\ pc = "done"
  /\ "B" \in trash /\ (\E i \in 1..Len(attempted) : attempted[i] = "B")
  /\ {"H", "T", "D"} \subseteq DOMAIN files
  /\ \A i \in 1..Len(attempted) : attempted[i] \notin {"H", "T", "D"}

\* The note a file of the scenario belongs to: the target directory of its
\* bucket, and the date in its name or, without one, of its modification
\* time.
NoteOf(f) ==
  Path(IF EntryOf(f).path.dir = NotesSrc THEN NotesTgt ELSE CourseTgt,
       (IF f \in {"A", "F"} THEN <<"2", "0", "2", "4", "-", "0", "3", "-", "0", "1">>
        ELSE <<"2", "0", "2", "3", "-", "0", "7", "-", "0", "4">>) \o <<".", "m", "d">>)

\* C19: processing a file writes to one note only, the one named after the
\* file's date in the target directory of the file's own bucket: no other
\* note is created, modified or removed, and the notes change only while a
\* file is in flight.
C19_BucketIsolation ==
  [][
      (notes' # notes) =>
        (/\ InFlight
         /\ DOMAIN notes \subseteq DOMAIN notes'
         /\ \A p \in DOMAIN notes' :
              (p \notin DOMAIN notes \/ notes'[p] # notes[p]) => (p = NoteOf(audio_file)))
    ]_vars

\* C19 witness: the transcript of the course memo is in the course note of
\* its date while the note of the same date in the notes vault, which was
\* there before the run, is as it was when the memo was taken up.
C19_Witness ==
  /\ audio_file = "F" /\ Did("append", "ok") /\ bullets # <<>>
  /\ exists(notes, NoteOf("F")) /\ EndsWith(notes[NoteOf("F")], bullets \o <<"\n">>)
  /\ exists(notes, NoteA) /\ exists(notes0, NoteA) /\ notes[NoteA] = notes0[NoteA]
  /\ NoteOf("F") # NoteA

\* The run before this one was killed with a file in flight.
KilledInFlight == runs.killed # "none"

\* C16: when a run is terminated from outside while a file is in flight,
\* at any point before its trash step, the file is still in its source
\* directory, and the next run processes it again: when that run has ended,
\* the file has been handed to process_audio in it.
C16_KilledFileRetried ==
  /\ (pc = "killed" /\ KilledInFlight) =>
       (runs.killed \in DOMAIN files /\ runs.killed \notin trash)
  /\ (runs.n > 1 /\ KilledInFlight /\ pc \in {"done", "crashed"}) =>
       (\E i \in 1..Len(attempted) : attempted[i] = runs.killed)

\* The same, for the next runs that leave main by its last line.
C16_RetriedByCompleteRun ==
  /\ (pc = "killed" /\ KilledInFlight) =>
       (runs.killed \in DOMAIN files /\ runs.killed \notin trash)
  /\ (runs.n > 1 /\ KilledInFlight /\ pc = "done") =>
       (\E i \in 1..Len(attempted) : attempted[i] = runs.killed)

\* The number of times the transcript of a file stands in its note: every
\* transcript that is not empty names its file once.
TimesAppended(f) ==
  IF exists(notes, NoteOf(f))
  THEN Cardinality({k \in 1..Len(notes[NoteOf(f)]) :
                      notes[NoteOf(f)][k] = EntryOf(f).audio[1]})
  ELSE 0

\* C18: over any sequence of runs, killed ones included, the transcript of
\* a source file is appended to its note at most once: a run killed between
\* the append and the trash step does not lead to a second append.
C18_AppendedAtMostOnce ==
  \A f \in EntriesAtStart : EntryOf(f).audio # <<>> => TimesAppended(f) <= 1

\* The same within one run.
C18_OncePerRun ==
  (runs.n = 1) => (\A f \in EntriesAtStart : EntryOf(f).audio # <<>> => TimesAppended(f) <= 1)

====
